---- MODULE Spec2Model ----
(***************************************************************************)
(* sriov-netplan-shim: the PCI network device model (pci.py) and the       *)
(* reconciliation driver (cmd.py).                                         *)
(*                                                                         *)
(* Two specifications share the state and the write steps:                 *)
(*   DeviceSpec  a client of pci.py: PCINetDevices(), update_devices(),    *)
(*               set_sriov_numvfs() on a collection that may be stale,     *)
(*               with the kernel's sysfs tree changing between calls;      *)
(*   Spec        runs of cmd.configure() over a desired configuration,     *)
(*               with exclusive access to sysfs during a run and other     *)
(*               actors changing sysfs between runs.                       *)
(***************************************************************************)
EXTENDS Integers, Sequences, FiniteSets, TLC

\* Largest sriov_totalvfs a modelled adapter reports.
MaxTotal == 2

\* Largest VF count a caller or the configuration asks for: one above capacity.
MaxVfs == MaxTotal + 1

\* Python None for the string attributes and for the integer attributes.
None == "None"
NoneInt == -1

\* The addresses `lspci -m -D` reports as Ethernet controllers, in its order.
get_pci_ethernet_addresses == <<"0000:03:00.0", "0000:03:00.1">>

AddrSet == {get_pci_ethernet_addresses[n] : n \in 1..Len(get_pci_ethernet_addresses)}

\* The single netdev below a PCI device's net directory.
get_sysnet_interface(a) == IF a = "0000:03:00.0" THEN "eth0" ELSE "eth1"

\* The content of net/<ifname>/address.
get_sysnet_mac(a) == IF a = "0000:03:00.0" THEN "aa:00" ELSE "aa:01"

\* The content of net/<ifname>/operstate.
get_sysnet_device_state(a) == IF a = "0000:03:00.0" THEN "up" ELSE "down"

\* Interface names a configuration may use: the two adapters and one that
\* matches nothing.
Names == {"eth0", "eth1", "eth9"}

VARIABLES
    kernel,     \* sysfs: per PCI address, what the kernel exposes
    devices,    \* the PCINetDevices collection in use (<<>>: none)
    config,     \* configuration["interfaces"], in iteration order
    running,    \* a configure() run is in progress
    pc,         \* "idle", "loop", "reset" (write of 0 next), "set" (write of target next)
    i,          \* configure(): index of the interface being processed
    cur,        \* index in devices of the device being mutated
    target,     \* numvfs argument of the set_sriov_numvfs call in progress
    log,        \* writes issued to sriov_numvfs files by the run or call
    was,        \* self.sriov_numvfs when that call was entered
    ret,        \* result of the last set_sriov_numvfs call
    warned,     \* the last iteration logged the "too high" warning
    outcome,    \* how the last configure() run ended
    settled,    \* the last run ended "ok" and sysfs was not touched since
    again,      \* the run in progress (or last run) started from a settled state
    zeroed,     \* address left between the two writes by the last run ("None": none)
    recovering  \* value of zeroed when the run in progress (or last run) started

vars == <<kernel, devices, config, running, pc, i, cur, target, was, log, ret,
          warned, outcome, settled, again, zeroed, recovering>>

Min(x, y) == IF x < y THEN x ELSE y

(***************************************************************************)
(* sysfs                                                                   *)
(***************************************************************************)

\* What one adapter can look like: listed by the scan (it has a net directory
\* with an interface name) or not, and, when sriov_totalvfs exists, the two VF
\* counters.
KernelRecords ==
    { [present |-> p, sriov |-> FALSE,
       sriov_totalvfs |-> NoneInt, sriov_numvfs |-> NoneInt] : p \in BOOLEAN }
    \cup
    { r \in
        { [present |-> p, sriov |-> TRUE, sriov_totalvfs |-> t, sriov_numvfs |-> n] :
            p \in BOOLEAN, t \in 0..MaxTotal, n \in 0..MaxTotal }
      : r.sriov_numvfs <= r.sriov_totalvfs }

\* The scan: one record per PCI device that has a net directory.
get_sysnet_interfaces_and_macs(k) ==
    { [interface |-> get_sysnet_interface(a),
       mac_address |-> get_sysnet_mac(a),
       pci_address |-> a,
       state |-> get_sysnet_device_state(a),
       sriov |-> k[a].sriov,
       sriov_totalvfs |-> IF k[a].sriov THEN k[a].sriov_totalvfs ELSE NoneInt,
       sriov_numvfs |-> IF k[a].sriov THEN k[a].sriov_numvfs ELSE NoneInt] :
        a \in {b \in AddrSet : k[b].present} }

\* open(sdevice, "w"); sh.write(str(numvfs)): the kernel takes the value when
\* the write is permitted (ok), the value is within sriov_totalvfs and the
\* change is not from one non-zero count to another.
WriteAccepted(k, a, numvfs, ok) ==
    /\ ok
    /\ k[a].sriov
    /\ numvfs <= k[a].sriov_totalvfs
    /\ (numvfs = 0 \/ k[a].sriov_numvfs = 0 \/ numvfs = k[a].sriov_numvfs)

SysfsWrite(k, a, numvfs) == [k EXCEPT ![a].sriov_numvfs = numvfs]

(***************************************************************************)
(* pci.py: PCINetDevice, PCINetDevices                                     *)
(***************************************************************************)

\* The mutant of update_interface_info that clears the snapshot on a miss.
update_interface_info_clearing(self, k) ==
    LET found == {r \in get_sysnet_interfaces_and_macs(k) :
                      r.pci_address = self.pci_address}
    IN  IF found = {}
        THEN [self EXCEPT !.interface_name = None, !.mac_address = None,
                          !.state = None, !.sriov = FALSE,
                          !.sriov_totalvfs = NoneInt, !.sriov_numvfs = NoneInt]
        ELSE LET r == CHOOSE x \in found : TRUE
             IN  [self EXCEPT !.interface_name = r.interface,
                              !.mac_address = r.mac_address,
                              !.state = r.state,
                              !.sriov = r.sriov,
                              !.sriov_totalvfs = IF r.sriov THEN r.sriov_totalvfs ELSE @,
                              !.sriov_numvfs = IF r.sriov THEN r.sriov_numvfs ELSE @]

update_interface_info(self, k) ==
    LET found == {r \in get_sysnet_interfaces_and_macs(k) :
                      r.pci_address = self.pci_address}
    IN  IF found = {}
        THEN self
        ELSE LET r == CHOOSE x \in found : TRUE
             IN  [self EXCEPT !.interface_name = r.interface,
                              !.mac_address = r.mac_address,
                              !.state = r.state,
                              !.sriov = r.sriov,
                              !.sriov_totalvfs = IF r.sriov THEN r.sriov_totalvfs ELSE @,
                              !.sriov_numvfs = IF r.sriov THEN r.sriov_numvfs ELSE @]

update_attributes(self, k) == update_interface_info(self, k)

\* The mutant of PCINetDevice that never reads sysfs.
PCINetDeviceUnscanned(pci_address, k) ==
    [pci_address |-> pci_address,
     interface_name |-> None,
     mac_address |-> None,
     state |-> None,
     sriov |-> FALSE,
     sriov_totalvfs |-> NoneInt,
     sriov_numvfs |-> NoneInt]

\* PCINetDevice.__init__
PCINetDevice(pci_address, k) ==
    update_attributes([pci_address |-> pci_address,
                       interface_name |-> None,
                       mac_address |-> None,
                       state |-> None,
                       sriov |-> FALSE,
                       sriov_totalvfs |-> NoneInt,
                       sriov_numvfs |-> NoneInt], k)

\* PCINetDevices.__init__
PCINetDevices(k) ==
    [n \in 1..Len(get_pci_ethernet_addresses) |->
        PCINetDevice(get_pci_ethernet_addresses[n], k)]

\* The mutant of get_device_from_interface_name that falls back to the first
\* device when no name matches.
get_device_from_interface_name_first(pci_devices, interface_name) ==
    LET hits == {n \in 1..Len(pci_devices) :
                    pci_devices[n].interface_name = interface_name}
    IN  IF hits = {} THEN 1
        ELSE CHOOSE n \in hits : \A m \in hits : n <= m

\* Index of the first device with that interface name, 0 for None.
get_device_from_interface_name(pci_devices, interface_name) ==
    LET hits == {n \in 1..Len(pci_devices) :
                    pci_devices[n].interface_name = interface_name}
    IN  IF hits = {} THEN 0
        ELSE CHOOSE n \in hits : \A m \in hits : n <= m

\* The mutant of NeedsChange that does not compare with the current value.
NeedsChangeAlways(self, numvfs) == self.sriov

\* The guard of set_sriov_numvfs: the call changes something.
NeedsChange(self, numvfs) == self.sriov /\ numvfs /= self.sriov_numvfs

\* The mutant of WritePlan that writes the target without the reset to 0.
WritePlanDirect(numvfs) == <<numvfs, numvfs>>

\* The two values set_sriov_numvfs passes to _set_sriov_numvfs, in order.
WritePlan(numvfs) == <<0, numvfs>>

\* The mutant of AfterWrite that leaves the snapshot as it was.
AfterWriteNoRefresh(pci_devices, n, k) == pci_devices

\* _set_sriov_numvfs after its write: self.update_attributes().
AfterWrite(pci_devices, n, k) ==
    [pci_devices EXCEPT ![n] = update_attributes(@, k)]

\* The mutant of RaisedPc in which configure() swallows the error and goes on.
RaisedPcSwallowed == "loop"

\* Where control goes when _set_sriov_numvfs raises: nothing catches it below
\* main(), which turns it into SystemExit.
RaisedPc == "idle"

\* The mutant of Clamp that applies the desired value as it is.
ClampMissing(num_vfs, sriov_totalvfs) == num_vfs

\* configure(): the value applied for a desired num_vfs.
Clamp(num_vfs, sriov_totalvfs) ==
    IF num_vfs > sriov_totalvfs THEN sriov_totalvfs ELSE num_vfs

(***************************************************************************)
(* The write steps of set_sriov_numvfs, shared by both specifications      *)
(***************************************************************************)

Ghosts == <<settled, again, zeroed, recovering>>

\* The exception of a rejected write leaves set_sriov_numvfs; under
\* configure() it ends the run.
Raise(between) ==
    /\ ret' = "raised"
    /\ pc' = RaisedPc
    /\ UNCHANGED <<kernel, config, i, cur, target, was, warned, again, recovering>>
    /\ IF running
       THEN /\ running' = (RaisedPc /= "idle")
            /\ outcome' = "error"
            /\ devices' = <<>>
            /\ settled' = FALSE
            /\ zeroed' = IF between THEN devices[cur].pci_address ELSE None
       ELSE UNCHANGED <<running, outcome, devices, settled, zeroed>>

\* self._set_sriov_numvfs(0)
WriteReset ==
    /\ pc = "reset"
    /\ \E ok \in BOOLEAN :
        LET a == devices[cur].pci_address
            v == WritePlan(target)[1]
            accepted == WriteAccepted(kernel, a, v, ok)
        IN  /\ log' = Append(log, [pci_address |-> a, value |-> v, ok |-> accepted])
            /\ IF accepted
               THEN /\ kernel' = SysfsWrite(kernel, a, v)
                    /\ devices' = AfterWrite(devices, cur, kernel')
                    /\ pc' = "set"
                    /\ UNCHANGED <<config, running, i, cur, target, was, ret, warned,
                                   outcome, Ghosts>>
               ELSE Raise(FALSE)

\* self._set_sriov_numvfs(numvfs); return True
WriteTarget ==
    /\ pc = "set"
    /\ \E ok \in BOOLEAN :
        LET a == devices[cur].pci_address
            v == WritePlan(target)[2]
            accepted == WriteAccepted(kernel, a, v, ok)
        IN  /\ log' = Append(log, [pci_address |-> a, value |-> v, ok |-> accepted])
            /\ IF accepted
               THEN /\ kernel' = SysfsWrite(kernel, a, v)
                    /\ devices' = AfterWrite(devices, cur, kernel')
                    /\ ret' = "True"
                    /\ pc' = IF running THEN "loop" ELSE "idle"
                    /\ i' = IF running THEN i + 1 ELSE i
                    /\ UNCHANGED <<config, running, cur, target, was, warned,
                                   outcome, Ghosts>>
               ELSE Raise(TRUE)

(***************************************************************************)
(* Other actors on the kernel's sysfs tree: they act between the calls of  *)
(* a client and between runs of configure(), never inside a call or a run  *)
(* (the exclusive access the two-step write assumes).                      *)
(***************************************************************************)

\* What the last call or run reported describes sysfs as that call or run left
\* it: it is dropped as soon as anything else acts.
Forget ==
    /\ i' = 0
    /\ cur' = 0
    /\ target' = 0
    /\ was' = NoneInt
    /\ log' = <<>>
    /\ ret' = "none"
    /\ warned' = FALSE

Touch(a, rec) ==
    /\ pc = "idle"
    /\ ~running
    /\ kernel' = [kernel EXCEPT ![a] = rec]
    /\ Forget
    /\ outcome' = "none"
    /\ settled' = FALSE
    /\ again' = FALSE
    /\ zeroed' = None
    /\ recovering' = None
    /\ UNCHANGED <<devices, config, running, pc>>

DriverUnbind ==
    \E a \in AddrSet :
        /\ kernel[a].present
        /\ Touch(a, [kernel[a] EXCEPT !.present = FALSE])

DriverBind ==
    \E a \in AddrSet :
        /\ ~kernel[a].present
        /\ Touch(a, [kernel[a] EXCEPT !.present = TRUE])

OtherWriter ==
    \E a \in AddrSet :
        /\ kernel[a].sriov
        /\ \E v \in 0..kernel[a].sriov_totalvfs :
            /\ v /= kernel[a].sriov_numvfs
            /\ Touch(a, [kernel[a] EXCEPT !.sriov_numvfs = v])

\* The adapter stops exposing sriov_totalvfs (SR-IOV switched off below the
\* driver): the VF counters go with it.
CapabilityLost ==
    \E a \in AddrSet :
        /\ kernel[a].sriov
        /\ Touch(a, [kernel[a] EXCEPT !.sriov = FALSE,
                                      !.sriov_totalvfs = NoneInt,
                                      !.sriov_numvfs = NoneInt])

(***************************************************************************)
(* DeviceSpec: a client of the device model                                *)
(***************************************************************************)

RunVars == <<config, running, i, warned, outcome, Ghosts>>

\* devices = pci.PCINetDevices()
NewDevices ==
    /\ pc = "idle"
    /\ ~running
    /\ devices' = PCINetDevices(kernel)
    /\ Forget
    /\ UNCHANGED <<kernel, pc, config, running, outcome, Ghosts>>

\* devices.update_devices()
update_devices ==
    /\ pc = "idle"
    /\ ~running
    /\ devices /= <<>>
    /\ devices' = [n \in DOMAIN devices |-> update_attributes(devices[n], kernel)]
    /\ Forget
    /\ UNCHANGED <<kernel, pc, config, running, outcome, Ghosts>>

\* devices.pci_devices[n].set_sriov_numvfs(numvfs), up to its first write
set_sriov_numvfs(n, numvfs) ==
    /\ pc = "idle"
    /\ ~running
    /\ n \in DOMAIN devices
    /\ cur' = n
    /\ target' = numvfs
    /\ was' = devices[n].sriov_numvfs
    /\ log' = <<>>
    /\ IF NeedsChange(devices[n], numvfs)
       THEN pc' = "reset" /\ ret' = "pending"
       ELSE pc' = "idle" /\ ret' = "False"
    /\ UNCHANGED <<kernel, devices, RunVars>>

Call == \E n \in 1..Len(get_pci_ethernet_addresses), numvfs \in 0..MaxVfs :
            set_sriov_numvfs(n, numvfs)

Quiet ==
    /\ devices = <<>>
    /\ running = FALSE
    /\ pc = "idle"
    /\ i = 0
    /\ cur = 0
    /\ target = 0
    /\ was = NoneInt
    /\ log = <<>>
    /\ ret = "none"
    /\ warned = FALSE
    /\ outcome = "none"
    /\ settled = FALSE
    /\ again = FALSE
    /\ zeroed = None
    /\ recovering = None

DeviceInit ==
    /\ kernel \in [AddrSet -> KernelRecords]
    /\ config = <<>>
    /\ Quiet

DeviceNext ==
    \/ NewDevices
    \/ update_devices
    \/ Call
    \/ WriteReset
    \/ WriteTarget
    \/ DriverUnbind
    \/ DriverBind
    \/ OtherWriter
    \/ CapabilityLost

DeviceSpec == DeviceInit /\ [][DeviceNext]_vars

(***************************************************************************)
(* Spec: runs of cmd.configure()                                           *)
(***************************************************************************)

\* configuration["interfaces"]: two entries with distinct names, in the
\* order the loop visits them.
Configs ==
    { <<[interface_name |-> n1, num_vfs |-> v1],
        [interface_name |-> n2, num_vfs |-> v2]>> :
        n1 \in Names, n2 \in Names, v1 \in 0..MaxVfs, v2 \in 0..MaxVfs }

\* configure() up to the loop
configure ==
    /\ pc = "idle"
    /\ ~running
    /\ running' = TRUE
    /\ pc' = "loop"
    /\ i' = 1
    /\ cur' = 0
    /\ target' = 0
    /\ was' = NoneInt
    /\ log' = <<>>
    /\ ret' = "none"
    /\ warned' = FALSE
    /\ outcome' = "running"
    /\ again' = settled
    /\ settled' = FALSE
    /\ recovering' = zeroed
    /\ zeroed' = None
    /\ UNCHANGED <<kernel, devices, config>>

\* One pass of the loop body, up to the first write of set_sriov_numvfs.
Iterate ==
    /\ running
    /\ pc = "loop"
    /\ i <= Len(config)
    /\ LET num_vfs == config[i].num_vfs
           devs == PCINetDevices(kernel)
           d == get_device_from_interface_name(devs, config[i].interface_name)
       IN  /\ devices' = devs
           /\ IF d /= 0 /\ devs[d].sriov
              THEN LET applied == Clamp(num_vfs, devs[d].sriov_totalvfs)
                   IN  /\ warned' = (num_vfs > devs[d].sriov_totalvfs)
                       /\ cur' = d
                       /\ target' = applied
                       /\ was' = devs[d].sriov_numvfs
                       /\ IF NeedsChange(devs[d], applied)
                          THEN pc' = "reset" /\ ret' = "pending" /\ i' = i
                          ELSE pc' = "loop" /\ ret' = "False" /\ i' = i + 1
              ELSE /\ warned' = FALSE
                   /\ cur' = 0
                   /\ target' = 0
                   /\ was' = NoneInt
                   /\ ret' = "none"
                   /\ pc' = "loop"
                   /\ i' = i + 1
    /\ UNCHANGED <<kernel, config, running, log, outcome, Ghosts>>

\* The loop is exhausted: configure() returns and the process exits 0.
Finish ==
    /\ running
    /\ pc = "loop"
    /\ i > Len(config)
    /\ running' = FALSE
    /\ pc' = "idle"
    /\ outcome' = "ok"
    /\ devices' = <<>>
    /\ settled' = TRUE
    /\ zeroed' = None
    /\ UNCHANGED <<kernel, config, i, cur, target, was, log, ret, warned, again, recovering>>

\* The process dies at any point of a run.
Crash ==
    /\ running
    /\ running' = FALSE
    /\ pc' = "idle"
    /\ outcome' = "crashed"
    /\ zeroed' = IF pc = "set" THEN devices[cur].pci_address ELSE None
    /\ devices' = <<>>
    /\ settled' = FALSE
    /\ UNCHANGED <<kernel, config, i, cur, target, was, log, ret, warned, again, recovering>>

Init ==
    /\ kernel \in [AddrSet -> KernelRecords]
    /\ config \in {c \in Configs : c[1].interface_name /= c[2].interface_name}
    /\ Quiet

Next ==
    \/ configure
    \/ Iterate
    \/ Finish
    \/ WriteReset
    \/ WriteTarget
    \/ Crash
    \/ DriverUnbind
    \/ DriverBind
    \/ OtherWriter
    \/ CapabilityLost

Spec == Init /\ [][Next]_vars

(***************************************************************************)
(* Properties                                                              *)
(***************************************************************************)

Addr(n) == get_pci_ethernet_addresses[n]

WriteOf(a, v, accepted) == [pci_address |-> a, value |-> v, ok |-> accepted]

\* The scan lists address a under that interface name.
Matches(a, interface_name) ==
    kernel[a].present /\ get_sysnet_interface(a) = interface_name

\* C1: a set_sriov_numvfs(n) call on an SR-IOV capable device whose in-memory
\* sriov_numvfs differs from n never returns False, writes nothing but 0 and
\* then n, both to that device's own control file, and has issued exactly those
\* two writes when it returns True.
C1_ResetThenTarget ==
    /\ pc = "reset" => log = <<>>
    /\ pc = "set" => log = <<WriteOf(Addr(cur), 0, TRUE)>>
    /\ ret = "True" =>
          log = <<WriteOf(Addr(cur), 0, TRUE), WriteOf(Addr(cur), target, TRUE)>>
    /\ ret = "raised" =>
          \/ log = <<WriteOf(Addr(cur), 0, FALSE)>>
          \/ log = <<WriteOf(Addr(cur), 0, TRUE), WriteOf(Addr(cur), target, FALSE)>>
    /\ ret = "False" => ~(devices[cur].sriov /\ target /= was)

\* C1 witness: a call that changed a non-zero count into another non-zero
\* count has returned True.
C1_Witness ==
    /\ ret = "True"
    /\ was > 0
    /\ target > 0
    /\ kernel[Addr(cur)].sriov_numvfs = target

\* C2: a set_sriov_numvfs(n) call on a device that is not SR-IOV capable, or
\* with n equal to its in-memory sriov_numvfs, returns False at once: no
\* write, no refresh, no change to any device attribute or to sysfs.
C2_NoOp ==
    [][\A n \in 1..Len(get_pci_ethernet_addresses), numvfs \in 0..MaxVfs :
          (/\ set_sriov_numvfs(n, numvfs)
           /\ (~devices[n].sriov \/ numvfs = devices[n].sriov_numvfs))
          => /\ ret' = "False"
             /\ pc' = "idle"
             /\ log' = <<>>
             /\ devices' = devices
             /\ kernel' = kernel]_vars

\* C2 witness: a call returned False on a capable device whose snapshot is out
\* of date, so a refresh would have shown.
C2_Witness ==
    /\ ret = "False"
    /\ devices[cur].sriov
    /\ target = devices[cur].sriov_numvfs
    /\ kernel[Addr(cur)].present
    /\ kernel[Addr(cur)].sriov_numvfs /= devices[cur].sriov_numvfs

\* The entry of the configuration that the set_sriov_numvfs call in progress,
\* or the one that just returned, was made for.
Entry == IF pc = "loop" THEN i - 1 ELSE i

\* C3: configure() passes min(desired num_vfs, sriov_totalvfs) to
\* set_sriov_numvfs, warns exactly when the desired value is above
\* sriov_totalvfs, and no write of a run carries a value above the
\* sriov_totalvfs of the device it goes to.
C3_Clamped ==
    /\ (running /\ cur /= 0) =>
          /\ target = Min(config[Entry].num_vfs, kernel[Addr(cur)].sriov_totalvfs)
          /\ warned = (config[Entry].num_vfs > kernel[Addr(cur)].sriov_totalvfs)
    /\ (running \/ outcome /= "none") =>
          \A k \in 1..Len(log) :
              log[k].value <= kernel[log[k].pci_address].sriov_totalvfs

\* C3 witness: a run warned, wrote 0 and then sriov_totalvfs, below the
\* desired value, and set_sriov_numvfs returned True.
C3_Witness ==
    /\ running
    /\ warned
    /\ ret = "True"
    /\ Len(log) = 2
    /\ log[2].value = kernel[Addr(cur)].sriov_totalvfs
    /\ log[2].value > 0
    /\ config[1].num_vfs > log[2].value

\* No record of the scan under that name belongs to an SR-IOV capable device.
NothingToConfigure(interface_name) ==
    \A a \in AddrSet : Matches(a, interface_name) => ~kernel[a].sriov

\* C4: an interface name that matches no device, or a device that is not
\* SR-IOV capable, is skipped: that pass of the loop raises nothing, writes
\* nothing, changes nothing in sysfs, and the loop goes on to the next entry.
C4_Skipped ==
    [][(Iterate /\ NothingToConfigure(config[i].interface_name))
          => /\ running'
             /\ pc' = "loop"
             /\ i' = i + 1
             /\ log' = log
             /\ kernel' = kernel
             /\ outcome' = outcome]_vars

\* C4 witness: the first entry was skipped and the second entry's device
\* was then configured in the same run.
C4_Witness ==
    /\ outcome = "ok"
    /\ NothingToConfigure(config[1].interface_name)
    /\ Len(log) = 2
    /\ log[2].ok
    /\ log[2].value > 0

\* C5: while a run has seen no write failure, every entry it has processed
\* whose name matches an SR-IOV capable device has that device's kernel
\* sriov_numvfs at min(desired, sriov_totalvfs), and when set_sriov_numvfs
\* has just returned the device object's sriov_numvfs is that value too.
C5_Converged ==
    (running \/ outcome = "ok") =>
        \A j \in 1..(i - 1), n \in 1..Len(get_pci_ethernet_addresses) :
            (Matches(Addr(n), config[j].interface_name) /\ kernel[Addr(n)].sriov)
            => /\ kernel[Addr(n)].sriov_numvfs =
                      Min(config[j].num_vfs, kernel[Addr(n)].sriov_totalvfs)
               /\ (running /\ pc = "loop" /\ j = i - 1)
                      => /\ cur = n
                         /\ devices[n].sriov_numvfs =
                               Min(config[j].num_vfs, kernel[Addr(n)].sriov_totalvfs)

\* C5 witness: a device that had no VFs was given a desired count below its
\* capacity by the two writes, and its refreshed snapshot shows that count.
C5_Witness ==
    /\ running
    /\ pc = "loop"
    /\ ret = "True"
    /\ was = 0
    /\ Len(log) = 2
    /\ log[2].value = config[1].num_vfs
    /\ config[1].num_vfs < kernel[Addr(cur)].sriov_totalvfs
    /\ devices[cur].sriov_numvfs = config[1].num_vfs

\* C6: a run that starts where a run that ended without failure left sysfs
\* issues no write and changes no kernel VF count.
C6_Idempotent ==
    [][(again' => log' = <<>>) /\ ((again /\ again') => kernel' = kernel)]_vars

\* C6 witness: a second run has completed on a device that the first run had
\* to give a non-zero count.
C6_Witness ==
    /\ again
    /\ outcome = "ok"
    /\ \E j \in 1..Len(config), a \in AddrSet :
          /\ Matches(a, config[j].interface_name)
          /\ kernel[a].sriov
          /\ config[j].num_vfs > 0
          /\ kernel[a].sriov_numvfs > 0

\* What a refresh of a device snapshot is to do, given the sysfs state k of
\* the device's own address a.
RefreshedFrom(old, new, a, k) ==
    IF ~k.present
    THEN new = old
    ELSE /\ new.pci_address = old.pci_address
         /\ new.interface_name = get_sysnet_interface(a)
         /\ new.mac_address = get_sysnet_mac(a)
         /\ new.state = get_sysnet_device_state(a)
         /\ new.sriov = k.sriov
         /\ new.sriov_totalvfs = IF k.sriov THEN k.sriov_totalvfs ELSE old.sriov_totalvfs
         /\ new.sriov_numvfs = IF k.sriov THEN k.sriov_numvfs ELSE old.sriov_numvfs

\* C7: a refresh that finds no record for the device's address in the scan
\* leaves every attribute as it was; one that finds the record overwrites
\* interface_name, mac_address, state and sriov from it, and sriov_totalvfs
\* and sriov_numvfs exactly when the record's sriov is true. Checked for
\* update_devices() and for the refresh that follows an accepted write.
C7_StaleOnMiss ==
    [][/\ update_devices =>
            \A n \in DOMAIN devices :
                RefreshedFrom(devices[n], devices'[n], Addr(n), kernel[Addr(n)])
       /\ (pc \in {"reset", "set"} /\ ret' /= "raised") =>
            /\ RefreshedFrom(devices[cur], devices'[cur], Addr(cur), kernel'[Addr(cur)])
            /\ \A n \in DOMAIN devices : n /= cur => devices'[n] = devices[n]]_vars

\* C7 witness: the refresh after the write of 0 found no record for the
\* device, whose snapshot still shows the interface and the old VF count.
C7_Witness ==
    /\ pc = "set"
    /\ ~kernel[Addr(cur)].present
    /\ kernel[Addr(cur)].sriov_numvfs = 0
    /\ devices[cur].interface_name /= None
    /\ devices[cur].sriov_numvfs > 0

\* C8 as claimed: a rejected write of 0 changes nothing and ends the call; a
\* rejected write of the target ends the call with the kernel count at 0 and
\* the device's in-memory sriov_numvfs at 0; neither returns True.
C8_AsClaimed ==
    [][/\ (pc = "reset" /\ pc' /= "set") =>
            /\ ret' = "raised"
            /\ pc' = "idle"
            /\ Len(log') = 1
            /\ kernel' = kernel
            /\ devices' = devices
       /\ (pc = "set" /\ ret' /= "True") =>
            /\ ret' = "raised"
            /\ pc' = "idle"
            /\ Len(log') = 2
            /\ kernel'[Addr(cur)].sriov_numvfs = 0
            /\ devices'[cur].sriov_numvfs = 0]_vars

\* C8, amended: as above, but the in-memory sriov_numvfs is 0 only if the
\* refresh after the write of 0 found the device's record in the scan; if it
\* did not, the in-memory value is the one the call was entered with.
C8_FailureSurfaced ==
    [][/\ (pc = "reset" /\ pc' /= "set") =>
            /\ ret' = "raised"
            /\ pc' = "idle"
            /\ Len(log') = 1
            /\ kernel' = kernel
            /\ devices' = devices
       /\ (pc = "set" /\ ret' /= "True") =>
            /\ ret' = "raised"
            /\ pc' = "idle"
            /\ Len(log') = 2
            /\ kernel'[Addr(cur)].sriov_numvfs = 0
            /\ devices'[cur].sriov_numvfs =
                  IF kernel[Addr(cur)].present THEN 0 ELSE was]_vars

\* C8 witness: the write of 0 was accepted, the write of the target was not,
\* and both sysfs and the refreshed snapshot show 0 where there were VFs.
C8_Witness ==
    /\ ret = "raised"
    /\ Len(log) = 2
    /\ was > 0
    /\ kernel[Addr(cur)].sriov_numvfs = 0
    /\ devices[cur].sriov_numvfs = 0

DesiredFor(a) ==
    LET js == {j \in 1..Len(config) : config[j].interface_name = get_sysnet_interface(a)}
    IN  config[CHOOSE j \in js : TRUE].num_vfs

\* C10: a run that dies or fails between the write of 0 and the write of the
\* target leaves that device's kernel VF count at 0, and the next run, once
\* it has completed without failure and with nothing else touching sysfs,
\* has brought the count to min(desired, sriov_totalvfs).
C10_SelfCorrecting ==
    /\ zeroed /= None => kernel[zeroed].sriov_numvfs = 0
    /\ (outcome = "ok" /\ recovering /= None) =>
          kernel[recovering].sriov_numvfs =
              Min(DesiredFor(recovering), kernel[recovering].sriov_totalvfs)

\* C10 witness: the run after an interrupted one has completed and the
\* device that was left at 0 has a non-zero count again.
C10_Witness ==
    /\ outcome = "ok"
    /\ recovering /= None
    /\ kernel[recovering].sriov_numvfs > 0
    /\ log /= <<>>

====
